---- MODULE Spec2Model ----
(***************************************************************************)
(* Seat inventory and booking engine of the movie ticketing system         *)
(* (src/code.py): SeatMapService, BookingService and the single sqlite3    *)
(* connection that MovieTicketingSystem.__init__ shares between them.      *)
(*                                                                         *)
(* The store is modelled as the connection sees it: `db` is the working    *)
(* state of the one connection (every cursor of every thread reads and     *)
(* writes it), `committed` is the last committed state and `in_transaction`*)
(* is the connection's transaction flag.  Each cursor.execute, commit,     *)
(* rollback and lock operation is one atomic step of the calling thread.   *)
(***************************************************************************)
EXTENDS Integers, Sequences, FiniteSets, TLC

\* ------------------------------------------------------------------ bounds
NumThreads == 2
MaxCalls == 3
NumShows == 2

\* Thread objects that exist; the specifications below say how many of them
\* make calls.
MaxThreads == 3

Threads == 1..MaxThreads

Callers == 1..NumThreads
Shows == 1..NumShows

\* Seats named as in the front end: letter = row, number = col + 1.
A1 == <<0, 0>>
D4 == <<3, 3>>
H1 == <<7, 0>>

\* Seat lists callers pass to book_seats and to cancel_seats.
BookInputs == {<<D4>>, <<A1, D4>>, <<A1, A1>>, <<H1>>}
CancelInputs == {<<A1>>, <<D4>>, <<A1, D4>>, <<D4, D4>>}
TicketArgs == 1..2

\* ------------------------------------------------------------- pure parts
get_price(row) == IF row \in {0, 1, 2} THEN 100 ELSE 150

\* get_price after the amounts in it have been changed by price_change.
current_price(change, row) == get_price(row) + change

\* A tier boundary one row later than the boundary of get_price.
get_seat_type_LateBoundary(row) == IF row \in {0, 1, 2, 3} THEN "Standard" ELSE "Premium"

get_seat_type(row) == IF row \in {0, 1, 2} THEN "Standard" ELSE "Premium"

EmptyStore == [ticket |-> <<>>, ticket_seat |-> {}]

\* SELECT 1 FROM ticket_seat ts JOIN ticket t ON ts.ticket_id = t.id
\* WHERE ts.show_id = ? AND ts.row = ? AND ts.col = ? AND t.status = 'BOOKED'
is_seat_available(store, show_id, row, col) ==
    ~ \E ts \in store.ticket_seat :
          /\ ts.show_id = show_id /\ ts.row = row /\ ts.col = col
          /\ ts.ticket_id \in DOMAIN store.ticket
          /\ store.ticket[ts.ticket_id].status = "BOOKED"

\* Every screen of the sample data has a 7 x 7 grid.
Rows == 7
Cols == 7

\* A seat map that joins no ticket row: every stored seat row is occupied.
build_seat_map_AnyStatus(store, show_id, rows, cols) ==
    [r \in 0..(rows - 1) |-> [c \in 0..(cols - 1) |->
        ~ \E ts \in store.ticket_seat :
              ts.show_id = show_id /\ ts.row = r /\ ts.col = c]]

\* seat_map starts all True; every (row, col) of
\* SELECT ts.row, ts.col FROM ticket_seat ts JOIN ticket t ON ts.ticket_id = t.id
\* WHERE ts.show_id = ? AND t.status = 'BOOKED'
\* that lies inside rows x cols is set to False.
build_seat_map(store, show_id, rows, cols) ==
    LET fetched == {<<ts.row, ts.col>> : ts \in
                       {x \in store.ticket_seat :
                            /\ x.show_id = show_id
                            /\ x.ticket_id \in DOMAIN store.ticket
                            /\ store.ticket[x.ticket_id].status = "BOOKED"}}
        marked == {p \in fetched : 0 <= p[1] /\ p[1] < rows /\ 0 <= p[2] /\ p[2] < cols}
    IN [r \in 0..(rows - 1) |-> [c \in 0..(cols - 1) |-> <<r, c>> \notin marked]]

\* INTEGER PRIMARY KEY without AUTOINCREMENT: the largest rowid in use + 1.
MaxOf(S) == IF S = {} THEN 0 ELSE CHOOSE m \in S : \A x \in S : x <= m

lastrowid(store) == MaxOf(DOMAIN store.ticket) + 1

\* UNIQUE(show_id, row, col) of ticket_seat.
UniqueViolation(store, show_id, row, col) ==
    \E ts \in store.ticket_seat :
        ts.show_id = show_id /\ ts.row = row /\ ts.col = col

RECURSIVE SumPrices(_)
SumPrices(S) ==
    IF S = {} THEN 0
    ELSE LET x == CHOOSE y \in S : TRUE IN x.price + SumPrices(S \ {x})

RECURSIVE SeatPriceSum(_)
SeatPriceSum(seats) ==
    IF seats = <<>> THEN 0
    ELSE get_price(Head(seats)[1]) + SeatPriceSum(Tail(seats))

SeatsOf(store, ticket_id) == {ts \in store.ticket_seat : ts.ticket_id = ticket_id}

\* ------------------------------------------------------------------ state
VARIABLES
    db,              \* working state of the shared connection
    committed,       \* last committed state of the store
    in_transaction,  \* the connection's transaction flag
    locks,           \* SeatMapService.locks: show id -> lock object (NoLock: absent)
    held,            \* the lock objects that are currently held
    pc,              \* position of each thread in its call
    call,            \* arguments of each thread's current / last call
    loc,             \* locals of each thread's current call
    result,          \* outcome of each thread's last finished call
    ncalls,          \* number of calls started so far
    price_change,    \* amount a change of the pricing policy constants adds (0: as released)
    overlap,         \* history: did another call run concurrently with the thread's call
    query            \* the read-only query in progress, with its arguments and its answer

vars == <<db, committed, in_transaction, locks, held, pc, call, loc, result,
          ncalls, price_change, overlap, query>>

NoLock == <<0, 0>>

NoCall == [op |-> "none", id |-> 0, show_id |-> 0, ticket_id |-> 0, seats |-> <<>>]

NoLocals == [i |-> 0, total_price |-> 0, ticket_id |-> 0, lock |-> NoLock,
             total_amount |-> 0, refund_amount |-> 0, remaining_seats |-> 0,
             exc |-> "none"]

NoResult == [kind |-> "none", ticket_id |-> 0, amount |-> 0]

NoQuery == [fn |-> "none", show_id |-> 0, row |-> 0, price |-> 0, type |-> "none",
            seat_map |-> <<>>]

Init ==
    /\ db = EmptyStore
    /\ committed = EmptyStore
    /\ in_transaction = FALSE
    /\ locks = [s \in Shows |-> NoLock]
    /\ held = {}
    /\ pc = [t \in Threads |-> "idle"]
    /\ call = [t \in Threads |-> NoCall]
    /\ loc = [t \in Threads |-> NoLocals]
    /\ result = [t \in Threads |-> NoResult]
    /\ ncalls = 0
    /\ price_change = 0
    /\ overlap = [t \in Threads |-> FALSE]
    /\ query = NoQuery

Active(t) == pc[t] \notin {"idle", "done"}

\* A thread enters a call: the other threads that are inside a call overlap it.
Enter(t, c) ==
    /\ pc[t] \in {"idle", "done"}
    /\ ncalls' = ncalls + 1
    /\ UNCHANGED <<price_change, query>>
    /\ call' = [call EXCEPT ![t] = [c EXCEPT !.id = ncalls + 1]]
    /\ overlap' = [u \in Threads |->
                     IF u = t THEN \E v \in Threads \ {t} : Active(v)
                     ELSE overlap[u] \/ Active(u)]

\* Implicit BEGIN of the sqlite3 module before INSERT / UPDATE / DELETE.
Dml(store) ==
    /\ db' = store
    /\ in_transaction' = TRUE
    /\ UNCHANGED committed

Raise(t, e, to) ==
    /\ loc' = [loc EXCEPT ![t].exc = e]
    /\ pc' = [pc EXCEPT ![t] = to]

\* ------------------------------------------------------------- book_seats
book_seats_call(t) ==
    \E show_id \in Shows, seats \in BookInputs :
        /\ Enter(t, [NoCall EXCEPT !.op = "book", !.show_id = show_id, !.seats = seats])
        /\ loc' = [loc EXCEPT ![t] = [NoLocals EXCEPT !.i = 1]]
        /\ pc' = [pc EXCEPT ![t] = "precheck"]
        /\ result' = [result EXCEPT ![t] = NoResult]
        /\ UNCHANGED <<db, committed, in_transaction, locks, held>>

\* book_seats with an empty list:
\* `if not seats: raise ValueError("No seats provided for booking")`
\* A check of the seat list that runs only after get_lock(show_id).
book_seats_no_seats_LockFirst(t) ==
    \E show_id \in Shows :
        /\ Enter(t, [NoCall EXCEPT !.op = "book", !.show_id = show_id, !.seats = <<>>])
        /\ locks' = [locks EXCEPT ![show_id] = IF @ = NoLock THEN <<show_id, t>> ELSE @]
        /\ pc' = [pc EXCEPT ![t] = "done"]
        /\ result' = [result EXCEPT ![t] = [NoResult EXCEPT !.kind = "NoSeats"]]
        /\ UNCHANGED <<db, committed, in_transaction, held, loc>>

\* if not seats: raise ValueError("No seats selected")
book_seats_no_seats(t) ==
    \E show_id \in Shows :
        /\ Enter(t, [NoCall EXCEPT !.op = "book", !.show_id = show_id, !.seats = <<>>])
        /\ pc' = [pc EXCEPT ![t] = "done"]
        /\ result' = [result EXCEPT ![t] = [NoResult EXCEPT !.kind = "NoSeats"]]
        /\ UNCHANGED <<db, committed, in_transaction, locks, held, loc>>

book_seats_precheck(t) ==
    /\ pc[t] = "precheck"
    /\ LET seat == call[t].seats[loc[t].i] IN
         IF ~ is_seat_available(db, call[t].show_id, seat[1], seat[2])
         THEN /\ pc' = [pc EXCEPT ![t] = "done"]
              /\ result' = [result EXCEPT ![t] = [NoResult EXCEPT !.kind = "AlreadyBooked"]]
              /\ loc' = [loc EXCEPT ![t] = NoLocals]
         ELSE /\ loc' = [loc EXCEPT ![t].i = IF @ = Len(call[t].seats) THEN 1 ELSE @ + 1,
                                    ![t].total_price = @ + current_price(price_change, seat[1])]
              /\ pc' = [pc EXCEPT ![t] =
                          IF loc[t].i = Len(call[t].seats) THEN "get_lock" ELSE "precheck"]
              /\ UNCHANGED result
    /\ UNCHANGED <<db, committed, in_transaction, locks, held, call, ncalls, overlap, price_change, query>>

\* get_lock: `if show_id not in self.locks`
get_lock_test(t) ==
    /\ pc[t] = "get_lock"
    /\ pc' = [pc EXCEPT ![t] =
                IF locks[call[t].show_id] = NoLock THEN "get_lock_new" ELSE "get_lock_return"]
    /\ UNCHANGED <<db, committed, in_transaction, locks, held, call, loc, result,
                   ncalls, overlap, price_change, query>>

\* get_lock: `self.locks[show_id] = threading.Lock()`; the new lock object is
\* identified by the show and the thread that made it.
get_lock_new(t) ==
    /\ pc[t] = "get_lock_new"
    /\ locks' = [locks EXCEPT ![call[t].show_id] = <<call[t].show_id, t>>]
    /\ pc' = [pc EXCEPT ![t] = "get_lock_return"]
    /\ UNCHANGED <<db, committed, in_transaction, held, call, loc, result,
                   ncalls, overlap, price_change, query>>

\* get_lock: `return self.locks[show_id]`
get_lock_return(t) ==
    /\ pc[t] = "get_lock_return"
    /\ loc' = [loc EXCEPT ![t].lock = locks[call[t].show_id]]
    /\ pc' = [pc EXCEPT ![t] = "acquire"]
    /\ UNCHANGED <<db, committed, in_transaction, locks, held, call, result,
                   ncalls, overlap, price_change, query>>

\* `with lock:` entry
lock_acquire(t) ==
    /\ pc[t] = "acquire"
    /\ loc[t].lock \notin held
    /\ held' = held \cup {loc[t].lock}
    /\ pc' = [pc EXCEPT ![t] = "begin"]
    /\ UNCHANGED <<db, committed, in_transaction, locks, call, loc, result,
                   ncalls, overlap, price_change, query>>

\* transaction(): cursor.execute("BEGIN IMMEDIATE"), for book_seats and cancel_seats
transaction_begin(t) ==
    /\ pc[t] = "begin"
    /\ IF in_transaction
       THEN /\ Raise(t, "OperationalError", "rollback")
            /\ UNCHANGED in_transaction
       ELSE /\ in_transaction' = TRUE
            /\ loc' = [loc EXCEPT ![t].i = 1]
            /\ pc' = [pc EXCEPT ![t] = IF call[t].op = "book" THEN "recheck" ELSE "select"]
    /\ UNCHANGED <<db, committed, locks, held, call, result, ncalls, overlap, price_change, query>>

\* recheck_seats, one is_seat_available query per step
book_seats_recheck(t) ==
    /\ pc[t] = "recheck"
    /\ LET seat == call[t].seats[loc[t].i] IN
         IF ~ is_seat_available(db, call[t].show_id, seat[1], seat[2])
         THEN Raise(t, "BecameUnavailable", "rollback")
         ELSE /\ loc' = [loc EXCEPT ![t].i = IF @ = Len(call[t].seats) THEN 1 ELSE @ + 1]
              /\ pc' = [pc EXCEPT ![t] =
                          IF loc[t].i = Len(call[t].seats) THEN "insert_ticket" ELSE "recheck"]
    /\ UNCHANGED <<db, committed, in_transaction, locks, held, call, result,
                   ncalls, overlap, price_change, query>>

\* INSERT INTO ticket ... 'BOOKED', total_price; ticket_id = cursor.lastrowid
book_seats_insert_ticket(t) ==
    /\ pc[t] = "insert_ticket"
    /\ LET id == lastrowid(db)
           row == [show_id |-> call[t].show_id, status |-> "BOOKED",
                   total |-> loc[t].total_price, by |-> call[t].id]
       IN /\ Dml([db EXCEPT !.ticket = [k \in DOMAIN db.ticket \cup {id} |->
                                           IF k = id THEN row ELSE db.ticket[k]]])
          /\ loc' = [loc EXCEPT ![t].ticket_id = id, ![t].i = 1]
    /\ pc' = [pc EXCEPT ![t] = "insert_seat"]
    /\ UNCHANGED <<locks, held, call, result, ncalls, overlap, price_change, query>>

InsertSeat(store, ticket_id, show_id, row, col, price, by) ==
    [store EXCEPT !.ticket_seat = @ \cup
        {[ticket_id |-> ticket_id, show_id |-> show_id, row |-> row, col |-> col,
          price |-> price, by |-> by]}]

\* The schema without UNIQUE(show_id, row, col).
SeatInsertFails_NoUnique(store, show_id, row, col) == FALSE

SeatInsertFails(store, show_id, row, col) == UniqueViolation(store, show_id, row, col)

\* INSERT INTO ticket_seat ..., one row per step
book_seats_insert_seat(t) ==
    /\ pc[t] = "insert_seat"
    /\ LET seat == call[t].seats[loc[t].i] IN
         IF SeatInsertFails(db, call[t].show_id, seat[1], seat[2])
         THEN /\ Raise(t, "IntegrityError", "rollback")
              /\ UNCHANGED <<db, committed, in_transaction>>
         ELSE /\ Dml(InsertSeat(db, loc[t].ticket_id, call[t].show_id, seat[1], seat[2],
                                current_price(price_change, seat[1]), call[t].id))
              /\ loc' = [loc EXCEPT ![t].i = IF @ = Len(call[t].seats) THEN 1 ELSE @ + 1]
              /\ pc' = [pc EXCEPT ![t] =
                          IF loc[t].i = Len(call[t].seats) THEN "commit" ELSE "insert_seat"]
    /\ UNCHANGED <<locks, held, call, result, ncalls, overlap, price_change, query>>

ok_result(t) ==
    IF call[t].op = "book"
    THEN [kind |-> "ok", ticket_id |-> loc[t].ticket_id, amount |-> loc[t].total_price]
    ELSE [kind |-> "ok", ticket_id |-> call[t].ticket_id, amount |-> loc[t].refund_amount]

\* transaction(): self.db.commit() after the body; cancel_seats returns here,
\* book_seats still has to leave `with lock`.
transaction_commit(t) ==
    /\ pc[t] = "commit"
    /\ committed' = db
    /\ in_transaction' = FALSE
    /\ IF call[t].op = "book"
       THEN /\ pc' = [pc EXCEPT ![t] = "release"]
            /\ UNCHANGED <<result, loc>>
       ELSE /\ pc' = [pc EXCEPT ![t] = "done"]
            /\ result' = [result EXCEPT ![t] = ok_result(t)]
            /\ loc' = [loc EXCEPT ![t] = NoLocals]
    /\ UNCHANGED <<db, locks, held, call, ncalls, overlap, price_change, query>>

\* A rollback whose exception leaves book_seats without passing through the
\* exit of `with lock:`.
transaction_rollback_KeepsLock(t) ==
    /\ pc[t] = "rollback"
    /\ db' = committed
    /\ in_transaction' = FALSE
    /\ pc' = [pc EXCEPT ![t] = "done"]
    /\ result' = [result EXCEPT ![t] = [NoResult EXCEPT !.kind = loc[t].exc]]
    /\ loc' = [loc EXCEPT ![t] = NoLocals]
    /\ UNCHANGED <<committed, locks, held, call, ncalls, overlap, price_change, query>>

\* transaction(): except Exception: self.db.rollback(); raise
transaction_rollback(t) ==
    /\ pc[t] = "rollback"
    /\ db' = committed
    /\ in_transaction' = FALSE
    /\ IF call[t].op = "book"
       THEN /\ pc' = [pc EXCEPT ![t] = "release"]
            /\ UNCHANGED <<result, loc>>
       ELSE /\ pc' = [pc EXCEPT ![t] = "done"]
            /\ result' = [result EXCEPT ![t] = [NoResult EXCEPT !.kind = loc[t].exc]]
            /\ loc' = [loc EXCEPT ![t] = NoLocals]
    /\ UNCHANGED <<committed, locks, held, call, ncalls, overlap, price_change, query>>

\* An exit path that leaves the lock held.
Released_Never(held_locks, lock) == held_locks

\* Lock.release() in `with lock:` __exit__
Released(held_locks, lock) == held_locks \ {lock}

\* `with lock:` exit, on return and on exception alike
lock_release(t) ==
    /\ pc[t] = "release"
    /\ held' = Released(held, loc[t].lock)
    /\ pc' = [pc EXCEPT ![t] = "done"]
    /\ result' = [result EXCEPT ![t] =
                    IF loc[t].exc = "none" THEN ok_result(t)
                    ELSE [NoResult EXCEPT !.kind = loc[t].exc]]
    /\ loc' = [loc EXCEPT ![t] = NoLocals]
    /\ UNCHANGED <<db, committed, in_transaction, locks, call, ncalls, overlap, price_change, query>>

\* ----------------------------------------------------------- cancel_seats
cancel_seats_call(t) ==
    \E ticket_id \in TicketArgs, seats \in CancelInputs :
        /\ Enter(t, [NoCall EXCEPT !.op = "cancel", !.ticket_id = ticket_id,
                                   !.seats = seats])
        /\ loc' = [loc EXCEPT ![t] = NoLocals]
        /\ pc' = [pc EXCEPT ![t] = "begin"]
        /\ result' = [result EXCEPT ![t] = NoResult]
        /\ UNCHANGED <<db, committed, in_transaction, locks, held>>

\* The lookup without `AND t.status = 'BOOKED'`.
SelectBooked_AnyStatus(store, id) == id \in DOMAIN store.ticket

\* SELECT t.total, t.show_id FROM ticket t WHERE t.id = ? AND t.status = 'BOOKED'
SelectBooked(store, id) ==
    id \in DOMAIN store.ticket /\ store.ticket[id].status = "BOOKED"

\* `result = cursor.fetchone(); if not result: raise ValueError(...)`
cancel_seats_select(t) ==
    /\ pc[t] = "select"
    /\ LET id == call[t].ticket_id IN
         IF SelectBooked(db, id)
         THEN /\ loc' = [loc EXCEPT ![t].total_amount = db.ticket[id].total, ![t].i = 1]
              /\ pc' = [pc EXCEPT ![t] = "refund"]
         ELSE Raise(t, "NotBooked", "rollback")
    /\ UNCHANGED <<db, committed, in_transaction, locks, held, call, result,
                   ncalls, overlap, price_change, query>>

Matching(store, ticket_id, row, col) ==
    {ts \in store.ticket_seat : ts.ticket_id = ticket_id /\ ts.row = row /\ ts.col = col}

\* SELECT price FROM ticket_seat WHERE ticket_id = ? AND row = ? AND col = ?,
\* one list entry per step; fetchone() takes one of the matching rows.
\* A refund that asks get_price again instead of reading the stored price.
RefundPrice_Requery(change, ts) == current_price(change, ts.row)

\* price_result[0] of SELECT price FROM ticket_seat
RefundPrice(change, ts) == ts.price

cancel_seats_refund(t) ==
    /\ pc[t] = "refund"
    /\ LET seat == call[t].seats[loc[t].i]
           rows == Matching(db, call[t].ticket_id, seat[1], seat[2])
       IN \E price \in (IF rows = {} THEN {0}
                        ELSE {RefundPrice(price_change, ts) : ts \in rows}) :
            loc' = [loc EXCEPT ![t].refund_amount = @ + price,
                               ![t].i = IF @ = Len(call[t].seats) THEN 1 ELSE @ + 1]
    /\ pc' = [pc EXCEPT ![t] =
                IF loc[t].i = Len(call[t].seats) THEN "delete" ELSE "refund"]
    /\ UNCHANGED <<db, committed, in_transaction, locks, held, call, result,
                   ncalls, overlap, price_change, query>>

\* DELETE FROM ticket_seat WHERE ticket_id = ? AND row = ? AND col = ?
\* DELETE FROM ticket_seat WHERE ticket_id = ? AND row = ? AND col = ?
cancel_seats_delete(t) ==
    /\ pc[t] = "delete"
    /\ LET seat == call[t].seats[loc[t].i] IN
         Dml([db EXCEPT !.ticket_seat =
                 @ \ Matching(db, call[t].ticket_id, seat[1], seat[2])])
    /\ loc' = [loc EXCEPT ![t].i = IF @ = Len(call[t].seats) THEN 1 ELSE @ + 1]
    /\ pc' = [pc EXCEPT ![t] =
                IF loc[t].i = Len(call[t].seats) THEN "count" ELSE "delete"]
    /\ UNCHANGED <<locks, held, call, result, ncalls, overlap, price_change, query>>

\* SELECT COUNT(*) FROM ticket_seat WHERE ticket_id = ?
cancel_seats_count(t) ==
    /\ pc[t] = "count"
    /\ loc' = [loc EXCEPT ![t].remaining_seats =
                  Cardinality(SeatsOf(db, call[t].ticket_id))]
    /\ pc' = [pc EXCEPT ![t] = "update"]
    /\ UNCHANGED <<db, committed, in_transaction, locks, held, call, result,
                   ncalls, overlap, price_change, query>>

NewTotal(total_amount, refund_amount) == total_amount - refund_amount

\* `if remaining_seats == 0` taken one seat too early.
AllSeatsCancelled_OffByOne(remaining_seats) == remaining_seats <= 1

\* `if remaining_seats == 0`
AllSeatsCancelled(remaining_seats) == remaining_seats = 0

UpdateTicket(store, id, status, total) ==
    IF id \in DOMAIN store.ticket
    THEN [store EXCEPT !.ticket[id].status = status, !.ticket[id].total = total]
    ELSE store

\* UPDATE ticket SET status = 'CANCELLED', total = 0 WHERE id = ?   or
\* UPDATE ticket SET total = ? WHERE id = ?
cancel_seats_update(t) ==
    /\ pc[t] = "update"
    /\ LET id == call[t].ticket_id IN
         IF AllSeatsCancelled(loc[t].remaining_seats)
         THEN Dml(UpdateTicket(db, id, "CANCELLED", 0))
         ELSE Dml(UpdateTicket(db, id,
                               IF id \in DOMAIN db.ticket THEN db.ticket[id].status
                               ELSE "BOOKED",
                               NewTotal(loc[t].total_amount, loc[t].refund_amount)))
    /\ pc' = [pc EXCEPT ![t] = "commit"]
    /\ UNCHANGED <<locks, held, call, loc, result, ncalls, overlap, price_change, query>>

\* ------------------------------------------------------------------- spec
Step(t) ==
    \/ book_seats_precheck(t)
    \/ get_lock_test(t)
    \/ get_lock_new(t)
    \/ get_lock_return(t)
    \/ lock_acquire(t)
    \/ transaction_begin(t)
    \/ book_seats_recheck(t)
    \/ book_seats_insert_ticket(t)
    \/ book_seats_insert_seat(t)
    \/ transaction_commit(t)
    \/ transaction_rollback(t)
    \/ lock_release(t)
    \/ cancel_seats_select(t)
    \/ cancel_seats_refund(t)
    \/ cancel_seats_delete(t)
    \/ cancel_seats_count(t)
    \/ cancel_seats_update(t)

\* Any number of threads call book_seats and cancel_seats concurrently.
Next ==
    \E t \in Callers :
        \/ ncalls < MaxCalls /\ book_seats_call(t)
        \/ ncalls < MaxCalls /\ book_seats_no_seats(t)
        \/ ncalls < MaxCalls /\ cancel_seats_call(t)
        \/ Step(t)

Spec == Init /\ [][Next]_vars

\* The same calls made one after the other, as the console front end makes
\* them: a call starts only when no other call is in progress.
Quiet == \A u \in Threads : ~ Active(u)

NextSerial ==
    \E t \in Callers :
        \/ Quiet /\ ncalls < MaxCalls /\ book_seats_call(t)
        \/ Quiet /\ ncalls < MaxCalls /\ book_seats_no_seats(t)
        \/ Quiet /\ ncalls < MaxCalls /\ cancel_seats_call(t)
        \/ Step(t)

SpecSerial == Init /\ [][NextSerial]_vars

\* Concurrent calls in which every thread that can take a step eventually
\* takes one: the interpreter keeps scheduling each runnable thread, and a
\* thread blocked in Lock.acquire() runs again once the lock stays free.
FairCalls == 2

NextFair ==
    \E t \in Callers :
        \/ ncalls < FairCalls /\ book_seats_call(t)
        \/ ncalls < FairCalls /\ book_seats_no_seats(t)
        \/ ncalls < FairCalls /\ cancel_seats_call(t)
        \/ Step(t)

SpecFair == Init /\ [][NextFair]_vars /\ \A t \in Threads : WF_vars(Step(t))

\* The serial calls, with the pricing constants of get_price raised between
\* two calls: every price goes up by the same amount.
PriceChanges == {0, 20}

change_price_policy ==
    /\ Quiet
    /\ \E change \in PriceChanges : change > price_change /\ price_change' = change
    /\ UNCHANGED <<db, committed, in_transaction, locks, held, pc, call, loc, result,
                   ncalls, overlap, query>>

NextPolicy == NextSerial \/ change_price_policy

SpecPolicy == Init /\ [][NextPolicy]_vars

\* The two pricing functions applied to one row index, in either order.
MaxRowArg == 30

RowArgs == 0..MaxRowArg

InitPricing ==
    /\ \E row \in RowArgs : query = [NoQuery EXCEPT !.fn = "pricing", !.row = row]
    /\ db = EmptyStore
    /\ committed = EmptyStore
    /\ in_transaction = FALSE
    /\ locks = [s \in Shows |-> NoLock]
    /\ held = {}
    /\ pc = [t \in Threads |-> "idle"]
    /\ call = [t \in Threads |-> NoCall]
    /\ loc = [t \in Threads |-> NoLocals]
    /\ result = [t \in Threads |-> NoResult]
    /\ ncalls = 0
    /\ price_change = 0
    /\ overlap = [t \in Threads |-> FALSE]

get_price_query ==
    /\ query.fn = "pricing" /\ query.price = 0
    /\ query' = [query EXCEPT !.price = get_price(query.row)]
    /\ UNCHANGED <<db, committed, in_transaction, locks, held, pc, call, loc, result,
                   ncalls, overlap, price_change>>

get_seat_type_query ==
    /\ query.fn = "pricing" /\ query.type = "none"
    /\ query' = [query EXCEPT !.type = get_seat_type(query.row)]
    /\ UNCHANGED <<db, committed, in_transaction, locks, held, pc, call, loc, result,
                   ncalls, overlap, price_change>>

NextPricing == get_price_query \/ get_seat_type_query

SpecPricing == InitPricing /\ [][NextPricing]_vars

\* The concurrent calls, with the seat map of a show drawn whenever no call is
\* in progress, as the console front end draws it between two operations.
build_seat_map_query ==
    /\ Quiet /\ query.fn = "none"
    /\ \E show_id \in Shows :
           query' = [NoQuery EXCEPT !.fn = "build_seat_map", !.show_id = show_id,
                                    !.seat_map = build_seat_map(db, show_id, Rows, Cols)]
    /\ UNCHANGED <<db, committed, in_transaction, locks, held, pc, call, loc, result,
                   ncalls, overlap, price_change>>

query_return ==
    /\ query.fn = "build_seat_map"
    /\ query' = NoQuery
    /\ UNCHANGED <<db, committed, in_transaction, locks, held, pc, call, loc, result,
                   ncalls, overlap, price_change>>

NextQuery ==
    \/ query.fn = "none" /\ Next
    \/ build_seat_map_query
    \/ query_return

SpecQuery == Init /\ [][NextQuery]_vars

\* Three threads working on seat D4 of show 1: the callers book the seat, and
\* the first caller and the third thread cancel ticket 1.
RecheckCalls == 4

NextRecheck ==
    \E t \in Threads :
        \/ /\ ncalls < RecheckCalls /\ t \in Callers /\ book_seats_call(t)
           /\ call'[t].show_id = 1 /\ call'[t].seats = <<D4>>
        \/ /\ ncalls < RecheckCalls /\ t \in Threads \ {NumThreads} /\ cancel_seats_call(t)
           /\ call'[t].ticket_id = 1 /\ call'[t].seats = <<D4>>
        \/ Step(t)

SpecRecheck == Init /\ [][NextRecheck]_vars

\* ----------------------------------------------------------------- claims
Booked(store, ts) ==
    /\ ts.ticket_id \in DOMAIN store.ticket
    /\ store.ticket[ts.ticket_id].status = "BOOKED"

Failed(t) == pc[t] = "done" /\ result[t].kind \notin {"none", "ok"}

Returned(t) == pc[t] = "done" /\ result[t].kind = "ok"

SeatUnavailable == {"AlreadyBooked", "BecameUnavailable"}

\* C1: no double-sell.  In every committed state, for every show, each
\* (row, col) is attached to at most one ticket_seat row whose owning ticket
\* has status BOOKED, whatever the interleaving of the calls.
C1_NoDoubleSell ==
    \A x, y \in committed.ticket_seat :
        (/\ x.show_id = y.show_id /\ x.row = y.row /\ x.col = y.col
         /\ Booked(committed, x) /\ Booked(committed, y)) => x = y

\* A seat is sold to one call and a second, overlapping call for the same seat
\* of the same show got as far as its INSERT and was turned away.
C1_Witness ==
    \E t \in Threads, x \in committed.ticket_seat :
        /\ Booked(committed, x)
        /\ Failed(t) /\ result[t].kind = "IntegrityError"
        /\ call[t].seats = <<D4>> /\ call[t].show_id = x.show_id
        /\ x.row = D4[1] /\ x.col = D4[2] /\ x.by # call[t].id

\* C2: two overlapping book_seats calls for the same single free seat of the
\* same show (the only two calls made, so the seat is free): exactly one returns,
\* the other fails with the seat-unavailable ValueError, and exactly one BOOKED
\* ticket holds the seat.
C2_ExactlyOneBooks ==
    \A t, u \in Threads :
        (/\ t # u /\ ncalls = 2
         /\ pc[t] = "done" /\ pc[u] = "done" /\ overlap[t] /\ overlap[u]
         /\ call[t].op = "book" /\ call[u].op = "book"
         /\ call[t].show_id = call[u].show_id
         /\ call[t].seats = <<D4>> /\ call[u].seats = <<D4>>)
        => /\ \/ Returned(t) /\ result[u].kind \in SeatUnavailable
              \/ Returned(u) /\ result[t].kind \in SeatUnavailable
           /\ Cardinality({x \in committed.ticket_seat :
                              /\ x.show_id = call[t].show_id
                              /\ x.row = D4[1] /\ x.col = D4[2]
                              /\ Booked(committed, x)}) = 1

RowsBy(store, id) == {x \in store.ticket_seat : x.by = id}

TicketsBy(store, id) == {k \in DOMAIN store.ticket : store.ticket[k].by = id}

\* The store holds exactly the reservation the book_seats call of thread t asked
\* for: one ticket, BOOKED, total = sum of get_price, one row per requested seat.
Complete(store, t) ==
    \E k \in DOMAIN store.ticket :
        /\ TicketsBy(store, call[t].id) = {k}
        /\ store.ticket[k].status = "BOOKED"
        /\ store.ticket[k].show_id = call[t].show_id
        /\ store.ticket[k].total = SeatPriceSum(call[t].seats)
        /\ RowsBy(store, call[t].id) = SeatsOf(store, k)
        /\ Cardinality(RowsBy(store, call[t].id)) = Len(call[t].seats)
        /\ \A n \in 1..Len(call[t].seats) :
               \E x \in RowsBy(store, call[t].id) :
                   /\ x.row = call[t].seats[n][1] /\ x.col = call[t].seats[n][2]
                   /\ x.show_id = call[t].show_id
                   /\ x.price = get_price(x.row)

Nothing(store, id) == TicketsBy(store, id) = {} /\ RowsBy(store, id) = {}

\* C3: all-or-nothing booking.  When book_seats leaves its transaction, the
\* committed store holds the whole reservation if the call is returning and
\* no row written by the call if it is raising.
C3_AllOrNothing ==
    [][\A t \in Threads :
          (/\ call[t].op = "book"
           /\ pc[t] \in {"commit", "rollback"} /\ pc'[t] = "release")
          => IF loc[t].exc = "none" THEN Complete(committed', t)
             ELSE Nothing(committed', call[t].id)]_vars

\* C4: in every committed state each ticket's total is the sum of the prices
\* of the ticket_seat rows attached to it, and a ticket without rows has
\* total 0 and status CANCELLED.
C4_TotalMatchesSeats ==
    \A k \in DOMAIN committed.ticket :
        /\ committed.ticket[k].total = SumPrices(SeatsOf(committed, k))
        /\ SeatsOf(committed, k) = {}
              => /\ committed.ticket[k].total = 0
                 /\ committed.ticket[k].status = "CANCELLED"

CancelCommits(t) ==
    call[t].op = "cancel" /\ pc[t] = "commit" /\ pc'[t] = "done"

\* C5: a cancel_seats call that leaves at least one seat attached returns the
\* sum of the stored prices of exactly the rows it removed, and the ticket's
\* total goes down by that amount.
C5_RefundIsPriceOfRemovedRows ==
    [][\A t \in Threads :
          (CancelCommits(t) /\ SeatsOf(committed', call[t].ticket_id) # {})
          => LET id == call[t].ticket_id
                 removed == SeatsOf(committed, id) \ SeatsOf(committed', id)
             IN /\ result'[t].amount = SumPrices(removed)
                /\ committed'.ticket[id].total =
                       committed.ticket[id].total - SumPrices(removed)]_vars

SeatRow(ticket_id, show_id, seat, by) ==
    [ticket_id |-> ticket_id, show_id |-> show_id, row |-> seat[1], col |-> seat[2],
     price |-> get_price(seat[1]), by |-> by]

C7_TotalNeverNegative ==
    \A k \in DOMAIN committed.ticket : committed.ticket[k].total >= 0

C9_RollbackKeepsOtherCallsWrites ==
    [][\A t \in Threads :
          (pc[t] = "rollback" /\ pc'[t] # "rollback")
          => /\ \A x \in db.ticket_seat : x.by # call[t].id => x \in db'.ticket_seat
             /\ \A k \in DOMAIN db.ticket :
                    db.ticket[k].by # call[t].id
                       => k \in DOMAIN db'.ticket /\ db'.ticket[k] = db.ticket[k]]_vars

\* C10: two overlapping book_seats calls on different shows (the only two calls
\* made, each for seats that are free on its show) both return, and each
\* commits its whole reservation.
C10_DifferentShowsIndependent ==
    \A t, u \in Threads :
        (/\ t # u /\ ncalls = 2
         /\ pc[t] = "done" /\ pc[u] = "done" /\ overlap[t] /\ overlap[u]
         /\ call[t].op = "book" /\ call[u].op = "book"
         /\ call[t].show_id # call[u].show_id
         /\ call[t].seats \in {<<D4>>, <<A1, D4>>}
         /\ call[u].seats \in {<<D4>>, <<A1, D4>>})
        => /\ Returned(t) /\ Complete(committed, t)
           /\ Returned(u) /\ Complete(committed, u)

\* C11: get_lock gives every caller the same lock object for a show: a registry
\* entry, once made, is never replaced, and no two calls that are in book_seats
\* for the same show have obtained different locks.
C11_OneLockPerShow ==
    [][/\ \A s \in Shows : locks[s] # NoLock => locks'[s] = locks[s]
       /\ \A t, u \in Threads :
              (/\ loc'[t].lock # NoLock /\ loc'[u].lock # NoLock
               /\ call'[t].show_id = call'[u].show_id)
              => loc'[t].lock = loc'[u].lock]_vars

\* The show a writer works on: the show booked, or the show of the ticket
\* being cancelled.
WriterShow(t) ==
    IF call[t].op = "book" THEN call[t].show_id
    ELSE IF call[t].ticket_id \in DOMAIN db.ticket
         THEN db.ticket[call[t].ticket_id].show_id
         ELSE 0

\* Between taking the show lock / opening the transaction and the end of the
\* commit or rollback.
InCriticalSection(t) ==
    \/ /\ call[t].op = "book"
       /\ pc[t] \in {"begin", "recheck", "insert_ticket", "insert_seat", "commit",
                     "rollback"}
    \/ /\ call[t].op = "cancel"
       /\ \/ pc[t] \in {"select", "refund", "delete", "count", "update", "commit"}
          \/ pc[t] = "rollback" /\ loc[t].exc # "OperationalError"

\* C12: mutual exclusion per show.  At most one writer is inside the critical
\* section for a given show.
C12_OneWriterPerShow ==
    \A t, u \in Threads :
        (/\ t # u /\ InCriticalSection(t) /\ InCriticalSection(u)
         /\ WriterShow(t) \in Shows)
        => WriterShow(t) # WriterShow(u)

HoldsLock(t) ==
    pc[t] \in {"begin", "recheck", "insert_ticket", "insert_seat", "commit", "rollback",
               "release"}

\* C13: book_seats ends its transaction before it gives up the show lock, on
\* return and on every error (re-validation failure, error at BEGIN or at an
\* INSERT), and a call that has terminated holds no lock: every held lock
\* belongs to a call that is still between acquire and release.
C13_LockReleasedAfterTransaction ==
    [][/\ \A t \in Threads :
              call[t].op = "book"
              => /\ (pc[t] # "release" /\ pc'[t] = "release")
                       => /\ pc[t] \in {"commit", "rollback"}
                          /\ in_transaction' = FALSE /\ db' = committed'
                          /\ loc[t].lock \in held'
                 /\ (loc[t].exc = "none" /\ loc'[t].exc # "none")
                       => pc'[t] = "rollback" /\ loc[t].lock \in held'
                 /\ (pc[t] # "done" /\ pc'[t] = "done") => loc[t].lock \notin held'
       /\ \A l \in held' : \E t \in Threads : HoldsLock(t)' /\ loc'[t].lock = l
       /\ Quiet' => held' = {}]_vars

\* A book_seats call has ended on each kind of error inside the lock, and
\* afterwards no lock is held and no transaction is open.
C13_Witness ==
    /\ held = {} /\ ~ in_transaction /\ Quiet
    /\ \E t, u \in Threads :
           /\ call[t].op = "book" /\ Failed(t) /\ result[t].kind = "OperationalError"
           /\ call[u].op = "book" /\ Failed(u)
           /\ result[u].kind \in {"IntegrityError", "BecameUnavailable"}

\* C14: deadlock freedom and termination.  A call never waits for a lock while
\* it holds one, so under weak fairness every started book_seats and
\* cancel_seats call eventually returns or raises, whether the concurrent
\* callers work on the same show or on different shows.
C14_EveryCallTerminates ==
    \A t \in Threads : Active(t) ~> (pc[t] = "done" /\ result[t].kind # "none")

\* A call is blocked on the show lock that another call, inside its
\* transaction, holds.
C14_Witness ==
    \E t, u \in Threads :
        /\ t # u
        /\ pc[t] = "acquire" /\ loc[t].lock \in held
        /\ HoldsLock(u) /\ loc[u].lock = loc[t].lock /\ in_transaction

\* C15: book_seats with an empty seat list fails at once with the "no seats"
\* error: the call makes no availability query, takes no lock, opens no
\* transaction, and leaves the store and the lock registry as they were.
C15_EmptyListFailsFirst ==
    [][\A t \in Threads :
           (/\ call'[t].id # call[t].id
            /\ call'[t].op = "book" /\ call'[t].seats = <<>>)
           => /\ pc'[t] = "done" /\ result'[t].kind = "NoSeats"
              /\ UNCHANGED <<db, committed, in_transaction, locks, held>>]_vars

\* An empty-list call has failed for a show nobody has locked yet, while the
\* store holds another show's booking.
C15_Witness ==
    \E t \in Threads :
        /\ call[t].op = "book" /\ call[t].seats = <<>>
        /\ pc[t] = "done" /\ result[t].kind = "NoSeats"
        /\ locks[call[t].show_id] = NoLock
        /\ committed # EmptyStore

InRange(seat) == seat[1] \in 0..(Rows - 1) /\ seat[2] \in 0..(Cols - 1)

HasOutOfRange(seats) == \E i \in DOMAIN seats : ~ InRange(seats[i])

HasDuplicate(seats) ==
    \E i, j \in DOMAIN seats : i < j /\ seats[i] = seats[j]

\* C16: book_seats with a seat outside the show's grid (row = Rows, or
\* col = Cols, or beyond) fails with InvalidRequest: it neither succeeds nor
\* reports the seat as unavailable, and it writes no ticket or ticket_seat row.
C16_OutOfRangeIsInvalidRequest ==
    \A t \in Threads :
        (call[t].op = "book" /\ HasOutOfRange(call[t].seats))
        => /\ Nothing(db, call[t].id)
           /\ pc[t] = "done" => result[t].kind = "InvalidRequest"

\* C17: book_seats with the same (row, col) twice in its list fails with
\* InvalidRequest before the show lock is taken and before a transaction is
\* opened, and writes no ticket or ticket_seat row.
C17_DuplicateIsInvalidRequest ==
    \A t \in Threads :
        (call[t].op = "book" /\ HasDuplicate(call[t].seats))
        => /\ ~ HoldsLock(t)
           /\ Nothing(db, call[t].id)
           /\ pc[t] = "done" => result[t].kind = "InvalidRequest"

\* C18: in every committed state each ticket_seat row of a BOOKED ticket lies
\* inside the grid of its show.
C18_BookedSeatsInRange ==
    \A ts \in committed.ticket_seat :
        Booked(committed, ts) => InRange(<<ts.row, ts.col>>)

\* C19: reservation lifecycle.  A committed ticket row is never deleted, its
\* status never goes from CANCELLED back to BOOKED, and once it is CANCELLED
\* no operation changes its status, its total or its seats.
C19_TicketLifecycle ==
    [][\A id \in DOMAIN committed.ticket :
           /\ id \in DOMAIN committed'.ticket
           /\ committed.ticket[id].status = "CANCELLED"
              => /\ committed'.ticket[id].status = "CANCELLED"
                 /\ committed'.ticket[id].total = committed.ticket[id].total
                 /\ SeatsOf(committed', id) = SeatsOf(committed, id)]_vars

\* C20: price snapshot round trip.  The price a ticket_seat row gets is the
\* price of its row class when the seat is booked, and the amount cancel_seats
\* adds to the refund for a seat is the price stored on its row, whatever
\* get_price answers at the time of the cancellation.
C20_RefundIsStoredPrice ==
    [][\A t \in Threads :
           /\ (pc[t] = "insert_seat" /\ price_change' = price_change)
              => \A ts \in db'.ticket_seat \ db.ticket_seat :
                     ts.price = current_price(price_change, ts.row)
           /\ (pc[t] = "refund" /\ loc'[t] # loc[t])
              => LET seat == call[t].seats[loc[t].i]
                     rows == Matching(db, call[t].ticket_id, seat[1], seat[2])
                 IN loc'[t].refund_amount - loc[t].refund_amount
                        \in (IF rows = {} THEN {0} ELSE {ts.price : ts \in rows})]_vars

\* Seat D4 was booked at the first price of its class, the prices were then
\* raised, and the cancellation returned the first price.
C20_Witness ==
    \E t \in Threads :
        /\ Returned(t) /\ call[t].op = "cancel" /\ call[t].seats = <<D4>>
        /\ price_change # 0
        /\ result[t].amount = current_price(0, D4[1])
        /\ result[t].amount # current_price(price_change, D4[1])

\* C21: pricing policy.  get_price answers 100 and get_seat_type answers
\* Standard exactly for rows 0, 1 and 2; for every other row they answer 150
\* and Premium; the two functions agree on the tier, and Premium costs more.
C21_PricingPolicy ==
    query.fn = "pricing"
    => /\ query.price # 0
          => /\ query.price = 100 <=> query.row \in {0, 1, 2}
             /\ query.price = 150 <=> query.row \notin {0, 1, 2}
       /\ query.type # "none"
          => /\ query.type = "Standard" <=> query.row \in {0, 1, 2}
             /\ query.type = "Premium" <=> query.row \notin {0, 1, 2}
       /\ (query.price # 0 /\ query.type # "none")
          => /\ query.price = 100 <=> query.type = "Standard"
             /\ query.type = "Premium" => query.price > 100

\* Both functions have answered for row 3, the first Premium row of the grid.
C21_Witness ==
    /\ query.fn = "pricing" /\ query.row = 3 /\ query.row < Rows
    /\ query.price = 150 /\ query.type = "Premium"

\* C22: seat map projection.  For every show and every cell inside the grid,
\* build_seat_map marks the cell occupied exactly when a ticket_seat row of
\* that show and cell is attached to a BOOKED ticket, which is exactly when
\* is_seat_available answers False on the same store; neither query changes
\* the store.
C22_SeatMapProjection ==
    [][/\ query'.fn = "build_seat_map"
          => \A r \in 0..(Rows - 1), c \in 0..(Cols - 1) :
                 /\ query'.seat_map[r][c] = FALSE
                    <=> \E ts \in db'.ticket_seat :
                            /\ ts.show_id = query'.show_id /\ ts.row = r /\ ts.col = c
                            /\ Booked(db', ts)
                 /\ query'.seat_map[r][c] = is_seat_available(db', query'.show_id, r, c)
       /\ query' # query => UNCHANGED <<db, committed, in_transaction>>
       /\ \A t \in Threads :
              (pc[t] \in {"precheck", "recheck"} /\ pc'[t] # pc[t])
              => UNCHANGED <<db, committed>>]_vars

\* The map of a show is drawn while the store holds, for that show, a seat of
\* a BOOKED ticket and a seat row left on a ticket that is not BOOKED.
C22_Witness ==
    /\ query.fn = "build_seat_map"
    /\ \E r \in 0..(Rows - 1), c \in 0..(Cols - 1) : query.seat_map[r][c] = FALSE
    /\ \E ts \in db.ticket_seat :
           /\ ts.show_id = query.show_id /\ InRange(<<ts.row, ts.col>>)
           /\ ~ Booked(db, ts)
           /\ query.seat_map[ts.row][ts.col] = TRUE

\* C23: authoritative re-check.  When book_seats re-checks, inside the lock and
\* the transaction, a seat that is by then committed to a BOOKED ticket, the
\* call raises the seat-unavailable error; its transaction is rolled back and
\* no ticket or ticket_seat row of the call is committed.
C23_RecheckSeesCommittedSeat ==
    [][\A t \in Threads :
           /\ (/\ call[t].op = "book" /\ pc[t] = "recheck"
               /\ (pc'[t] # pc[t] \/ loc'[t] # loc[t])
               /\ LET seat == call[t].seats[loc[t].i] IN
                     ~ is_seat_available(committed, call[t].show_id, seat[1], seat[2]))
              => /\ pc'[t] = "rollback" /\ loc'[t].exc = "BecameUnavailable"
           /\ (pc'[t] = "done" /\ result'[t].kind = "BecameUnavailable")
              => Nothing(committed', call'[t].id)]_vars

\* C24: book_seats fails with the seat-unavailable error only for a seat that
\* was attached to a committed BOOKED reservation at some point during the
\* call, never because of rows another call has written but not committed.
\* Committed ticket rows are never removed, so a call that fails this way
\* while the committed store holds no ticket at all has failed on uncommitted
\* rows.
C24_UnavailableOnlyIfCommitted ==
    \A t \in Threads :
        (/\ call[t].op = "book" /\ Failed(t)
         /\ result[t].kind \in SeatUnavailable)
        => committed.ticket # <<>>

OtherRows(store, ticket_id) == {ts \in store.ticket_seat : ts.ticket_id # ticket_id}

OtherTickets(store, ticket_id) ==
    [id \in DOMAIN store.ticket \ {ticket_id} |-> store.ticket[id]]

\* C25: frame of cancel_seats.  No step of a cancel_seats(ticket_id, seats)
\* call changes a ticket row with another id or a ticket_seat row of another
\* ticket, and a requested seat that is not part of the reservation adds
\* nothing to the refund and does not fail the call.
C25_CancelTouchesOnlyItsTicket ==
    [][\A t \in Threads :
           (/\ call[t].op = "cancel" /\ Active(t)
            /\ (pc'[t] # pc[t] \/ loc'[t] # loc[t]))
           => /\ OtherTickets(db', call[t].ticket_id) = OtherTickets(db, call[t].ticket_id)
              /\ OtherRows(db', call[t].ticket_id) = OtherRows(db, call[t].ticket_id)
              /\ pc[t] = "refund"
                 => LET seat == call[t].seats[loc[t].i] IN
                      Matching(db, call[t].ticket_id, seat[1], seat[2]) = {}
                      => /\ loc'[t].refund_amount = loc[t].refund_amount
                         /\ pc'[t] \in {"refund", "delete"}]_vars

\* C26: no orphan or stale seat rows.  In every committed state each
\* ticket_seat row references a ticket row that exists, has the same show_id
\* and is BOOKED; so the UNIQUE(show_id, row, col) constraint never blocks a
\* seat that is_seat_available reports as free.
C26_NoOrphanSeatRows ==
    /\ \A ts \in committed.ticket_seat :
           /\ ts.ticket_id \in DOMAIN committed.ticket
           /\ committed.ticket[ts.ticket_id].show_id = ts.show_id
           /\ committed.ticket[ts.ticket_id].status = "BOOKED"
    /\ \A s \in Shows, seat \in {A1, D4, H1} :
           UniqueViolation(committed, s, seat[1], seat[2])
           => ~ is_seat_available(committed, s, seat[1], seat[2])

\* C27: seat release.  When a cancel_seats call for one seat has found the
\* seat on its ticket, removed it and returned its refund, the seat is no
\* longer attached to that ticket in the committed store: it is available and
\* a later booking of it is not blocked.
C27_CancelledSeatIsFree ==
    [][\A t \in Threads :
           (/\ call[t].op = "cancel" /\ pc[t] = "commit" /\ pc'[t] = "done"
            /\ Len(call[t].seats) = 1 /\ loc[t].refund_amount > 0)
           => LET seat == call[t].seats[1] IN
                Matching(committed', call[t].ticket_id, seat[1], seat[2]) = {}]_vars

\* C28: ticket ids are unique per successful booking.  No two book_seats
\* calls that returned hold the same ticket id, and a ticket_seat row written
\* by one call is never attached to a ticket row created by another call.
C28_TicketIdsUnique ==
    /\ \A t, u \in Threads :
           (/\ t # u
            /\ call[t].op = "book" /\ Returned(t)
            /\ call[u].op = "book" /\ Returned(u))
           => result[t].ticket_id # result[u].ticket_id
    /\ \A ts \in committed.ticket_seat :
           ts.ticket_id \in DOMAIN committed.ticket
           => committed.ticket[ts.ticket_id].by = ts.by

====
